---- MODULE Spec2Model ----
(***************************************************************************)
(* kb_python/ref.py: the reference-build pipelines ref and ref_velocity    *)
(* and the writers create_t2g_from_gtf and create_t2c they call.           *)
(*                                                                         *)
(* Python strings are sequences of one-character strings, so formatting    *)
(* and file contents are computed character by character.  A dict is a     *)
(* function whose domain is its key set.  The filesystem fs is a function  *)
(* from the paths that exist to their contents: a text file is its         *)
(* characters, a FASTA file its (sequence_id, body) entries, a GTF file    *)
(* its parsed records, the index an opaque record of what it was built     *)
(* from.  The artifact paths a caller passes are distinct paths.           *)
(***************************************************************************)
EXTENDS Integers, Sequences, FiniteSets, TLC

(* ------------------------------ bounds -------------------------------- *)

\* annotation records per annotation source
MaxEntries == 2

\* sequence entries per extracted sequence file
MaxSeqs == 2

(* ------------------------- Python values ------------------------------ *)

TAB == "\t"

NL == "\n"

\* Python's None, kept apart from every string (whose characters are single)
None == <<"None">>

\* faulty variant: a version that is present, even empty, counts
Truthy_Present(v) == v # None

\* bool(v) of a string or None
Truthy(v) == v # None /\ v # <<>>

\* {}
EmptyMap == [k \in {} |-> <<>>]

\* d.get(k, default)
Get(d, k, default) == IF k \in DOMAIN d THEN d[k] ELSE default

\* name = value, for a local variable
Bind(env, name, value) ==
  [n \in DOMAIN env \cup {name} |-> IF n = name THEN value ELSE env[n]]

\* faulty variant: the dict is replaced by the new entries
Update_Replace(d, m) == m

\* d.update(m)
Update(d, m) ==
  [k \in DOMAIN d \cup DOMAIN m |-> IF k \in DOMAIN m THEN m[k] ELSE d[k]]

\* os.path.join(a, b)
Join(a, b) == a \o "/" \o b

\* os.path.exists(p)
Exists(fsys, p) == p \in DOMAIN fsys

\* the file p created or overwritten with content c
WriteFile(fsys, p, c) ==
  [q \in DOMAIN fsys \cup {p} |-> IF q = p THEN c ELSE fsys[q]]

(* --------------------- the caller's arguments ------------------------- *)

fasta_path == "genome.fa"

gtf_path == "genes.gtf"

cdna_path == "cdna.fa"

intron_path == "intron.fa"

index_path == "index.idx"

t2g_path == "t2g.txt"

cdna_t2c_path == "cdna_t2c.txt"

intron_t2c_path == "intron_t2c.txt"

temp_dir == "tmp"

SORTED_FASTA_FILENAME == "sorted.fa"

SORTED_GTF_FILENAME == "sorted.gtf"

COMBINED_FILENAME == "combined.fa"

\* kallisto_index's default k
K_DEFAULT == 31

(* --------------------- create_t2g_from_gtf ---------------------------- *)

\* '{}.{}'.format(id, version) if version else id
Versioned(id, version) ==
  IF Truthy(version) THEN id \o <<".">> \o version ELSE id

\* '{}\t{}\t{}\n'.format(transcript, gene, gene_name)
Row(transcript, gene, gene_name) ==
  transcript \o <<TAB>> \o gene \o <<TAB>> \o gene_name \o <<NL>>

\* faulty variant: the ids are looked up before the feature is tested
EntryRaises_AnyFeature(entry) ==
  \/ "transcript_id" \notin DOMAIN entry.group
  \/ "gene_id" \notin DOMAIN entry.group

\* entry['group']['transcript_id'] or entry['group']['gene_id'] raises KeyError
EntryRaises(entry) ==
  /\ entry.feature = "transcript"
  /\ \/ "transcript_id" \notin DOMAIN entry.group
     \/ "gene_id" \notin DOMAIN entry.group

\* faulty variant: the synthetic intron row is not written
EntryRows_NoIntronRow(entry, intron) ==
  IF entry.feature = "transcript"
  THEN Row(Versioned(entry.group["transcript_id"], Get(entry.group, "transcript_version", None)),
           Versioned(entry.group["gene_id"], Get(entry.group, "gene_version", None)),
           Get(entry.group, "gene_name", <<>>))
  ELSE <<>>

\* what one iteration of the loop writes for an entry that does not raise
EntryRows(entry, intron) ==
  IF entry.feature = "transcript"
  THEN LET transcript_id == entry.group["transcript_id"]
           transcript_version == Get(entry.group, "transcript_version", None)
           transcript == Versioned(transcript_id, transcript_version)
           gene_id == entry.group["gene_id"]
           gene_version == Get(entry.group, "gene_version", None)
           gene == Versioned(gene_id, gene_version)
           gene_name == Get(entry.group, "gene_name", <<>>)
       IN  Row(transcript, gene, gene_name)
             \o (IF intron
                 THEN Row(transcript \o <<"-", "I">>, gene, gene_name)
                 ELSE <<>>)
  ELSE <<>>

\* the loop over gtf.entries(): the text written and whether a KeyError ended it
RECURSIVE WriteT2G(_, _, _)
WriteT2G(entries, intron, written) ==
  IF entries = <<>> THEN [text |-> written, raised |-> FALSE]
  ELSE IF EntryRaises(Head(entries)) THEN [text |-> written, raised |-> TRUE]
  ELSE WriteT2G(Tail(entries), intron, written \o EntryRows(Head(entries), intron))

\* io: whether open(t2g_path, 'w') succeeds
create_t2g_from_gtf(fsys, gtf, t2g, intron, io) ==
  IF ~io THEN [fs |-> fsys, exc |-> "OSError", ret |-> EmptyMap]
  ELSE LET w == WriteT2G(fsys[gtf], intron, <<>>)
       IN  [fs |-> WriteFile(fsys, t2g, w.text),
            exc |-> IF w.raised THEN "KeyError" ELSE "none",
            ret |-> IF w.raised THEN EmptyMap ELSE [t2g |-> t2g]]

(* --------------------------- create_t2c ------------------------------- *)

\* the loop over fasta.entries(): '{}\n'.format(sequence_id) per entry
RECURSIVE WriteT2C(_, _)
WriteT2C(entries, written) ==
  IF entries = <<>> THEN written
  ELSE WriteT2C(Tail(entries), written \o Head(entries)[1] \o <<NL>>)

\* faulty variant: the output is opened for appending
create_t2c_Append(fsys, fasta, t2c, io) ==
  IF ~io THEN [fs |-> fsys, exc |-> "OSError", ret |-> EmptyMap]
  ELSE [fs |-> WriteFile(fsys, t2c, WriteT2C(fsys[fasta], Get(fsys, t2c, <<>>))),
        exc |-> "none",
        ret |-> [t2c |-> t2c]]

\* io: whether open(t2c_path, 'w') succeeds
create_t2c(fsys, fasta, t2c, io) ==
  IF ~io THEN [fs |-> fsys, exc |-> "OSError", ret |-> EmptyMap]
  ELSE [fs |-> WriteFile(fsys, t2c, WriteT2C(fsys[fasta], <<>>)),
        exc |-> "none",
        ret |-> [t2c |-> t2c]]

(* ------------------------- collaborators ------------------------------ *)
(* ext is what the collaborator does on this call: ext.ok whether it       *)
(* succeeds, ext.out the content it produces.  A failing collaborator      *)
(* raises without writing.  A result is the filesystem after the call, the *)
(* exception raised ("none" when it returns) and the value returned.       *)

\* GTF(path).sort(out_path), FASTA(path).sort(out_path)
SortTo(fsys, path, out_path, ext) ==
  IF ~ext.ok THEN [fs |-> fsys, exc |-> "CollaboratorError"]
  ELSE [fs |-> WriteFile(fsys, out_path, ext.out), exc |-> "none"]

sort_gtf(fsys, gtf, out_path, ext) ==
  LET s == SortTo(fsys, gtf, out_path, ext)
  IN  [fs |-> s.fs, exc |-> s.exc, ret |-> out_path]

sort_fasta(fsys, fasta, out_path, ext) ==
  LET s == SortTo(fsys, fasta, out_path, ext)
  IN  [fs |-> s.fs, exc |-> s.exc, ret |-> out_path]

\* utils.generate_cdna_fasta(sorted_fasta_path, sorted_gtf_path, out_path)
generate_cdna_fasta(fsys, sorted_fasta, sorted_gtf, out_path, ext) ==
  IF ~ext.ok THEN [fs |-> fsys, exc |-> "CollaboratorError", ret |-> out_path]
  ELSE [fs |-> WriteFile(fsys, out_path, ext.out), exc |-> "none", ret |-> out_path]

\* utils.generate_intron_fasta(sorted_fasta_path, sorted_gtf_path, out_path)
generate_intron_fasta(fsys, sorted_fasta, sorted_gtf, out_path, ext) ==
  IF ~ext.ok THEN [fs |-> fsys, exc |-> "CollaboratorError", ret |-> out_path]
  ELSE [fs |-> WriteFile(fsys, out_path, ext.out), exc |-> "none", ret |-> out_path]

\* utils.concatenate_files(a, b, out_path=..., temp_dir=...)
concatenate_files(fsys, a, b, out_path, tmp, ext) ==
  IF ~ext.ok THEN [fs |-> fsys, exc |-> "CollaboratorError", ret |-> out_path]
  ELSE [fs |-> WriteFile(fsys, out_path, fsys[a] \o fsys[b]),
        exc |-> "none", ret |-> out_path]

\* get_kallisto_binary_path() and utils.run_executable(command)
run_executable(fsys, command, ext) ==
  IF ~ext.ok THEN [fs |-> fsys, exc |-> "CollaboratorError"]
  ELSE [fs |-> WriteFile(fsys, command[4], [k |-> command[6], input |-> fsys[command[7]]]),
        exc |-> "none"]

kallisto_index(fsys, fasta, index, k, ext) ==
  LET command == <<"kallisto", "index", "-i", index, "-k", k, fasta>>
      r == run_executable(fsys, command, ext)
  IN  [fs |-> r.fs, exc |-> r.exc,
       ret |-> IF r.exc # "none" THEN EmptyMap ELSE [index |-> index]]

\* faulty variant: the overwrite flag is not consulted
ShouldBuild_IgnoresOverwrite(fsys, index, overwrite) == ~Exists(fsys, index)

\* not os.path.exists(index_path) or overwrite
ShouldBuild(fsys, index, overwrite) == ~Exists(fsys, index) \/ overwrite

(* ----------------------------- inputs --------------------------------- *)

T1 == <<"T", "1">>

T2 == <<"T", "2">>

G1 == <<"G", "1">>

GeneName == <<"N">>

BODY == <<"A", "C">>

\* sequences over S of length at most n
SeqsUpTo(S, n) == UNION {[1..m -> S] : m \in 0..n}

\* the rearrangements of a sequence
Perms(s) ==
  LET n == Len(s)
      bij == {f \in [1..n -> 1..n] : \A i, j \in 1..n : f[i] = f[j] => i = j}
  IN  {[i \in 1..n |-> s[f[i]]] : f \in bij}

\* the groups of transcript records that have both ids
GoodGroups ==
  UNION {
    {g \in [D -> {T1, T2, G1, GeneName, <<>>, <<"0">>, <<"3">>}] :
        /\ g["transcript_id"] \in {T1, T2}
        /\ g["transcript_id"] = T2 => D \cap {"gene_version", "gene_name"} = {}
        /\ g["gene_id"] = G1
        /\ "transcript_version" \in D => g["transcript_version"] \in {<<>>, <<"0">>}
        /\ "gene_version" \in D => g["gene_version"] \in {<<>>, <<"3">>}
        /\ "gene_name" \in D => g["gene_name"] = GeneName}
    : D \in {{"transcript_id", "gene_id"} \cup X :
               X \in SUBSET {"transcript_version", "gene_version", "gene_name"}}}

\* groups lacking transcript_id, gene_id or both
BadGroups ==
  {[gene_id |-> G1, transcript_version |-> <<"0">>],
   [transcript_id |-> T1, gene_name |-> GeneName],
   [gene_name |-> GeneName]}

Records ==
  {[feature |-> "transcript", group |-> g] : g \in GoodGroups \cup BadGroups}
    \cup {[feature |-> "exon", group |-> g] :
            g \in {[gene_name |-> GeneName],
                   [transcript_id |-> T2, gene_id |-> G1, gene_version |-> <<"3">>]}}

\* the records a pipeline run's annotation file is drawn from
PipelineRecords ==
  {[feature |-> "transcript",
    group |-> [transcript_id |-> T1, transcript_version |-> <<"0">>,
               gene_id |-> G1, gene_name |-> GeneName]],
   [feature |-> "transcript", group |-> [transcript_id |-> T2]],
   [feature |-> "exon", group |-> [gene_name |-> GeneName]]}

Genome == << <<<<"c", "1">>, BODY>> >>

CdnaContents == SeqsUpTo({<<T1, BODY>>, <<T2, BODY>>}, MaxSeqs)

IntronContents == SeqsUpTo({<<T1 \o <<"-", "I">>, BODY>>, <<T2 \o <<"-", "I">>, BODY>>}, MaxSeqs)

\* what a file left by an earlier run holds
StaleText == <<"o", "l", "d", NL>>

StaleFasta == << <<<<"o", "l", "d">>, BODY>> >>

StaleGtf == <<[feature |-> "old", group |-> EmptyMap]>>

StaleIndex == [k |-> K_DEFAULT, input |-> StaleFasta]

sorted_fasta_out == Join(temp_dir, SORTED_FASTA_FILENAME)

sorted_gtf_out == Join(temp_dir, SORTED_GTF_FILENAME)

combined_out == Join(temp_dir, COMBINED_FILENAME)

TextPaths == {t2g_path, cdna_t2c_path, intron_t2c_path}

FastaPaths == {cdna_path, intron_path, sorted_fasta_out, combined_out}

\* every derived file already present, left by an earlier run
StaleFiles ==
  [p \in TextPaths \cup FastaPaths \cup {sorted_gtf_out} |->
     IF p \in TextPaths THEN StaleText
     ELSE IF p \in FastaPaths THEN StaleFasta
     ELSE StaleGtf]

\* the filesystem a run starts from
InitialFs(gtf, index_exists, stale) ==
  LET inputs == [p \in {fasta_path, gtf_path} |-> IF p = fasta_path THEN Genome ELSE gtf]
      withIndex == IF index_exists THEN WriteFile(inputs, index_path, StaleIndex) ELSE inputs
  IN  IF stale
      THEN [p \in DOMAIN withIndex \cup DOMAIN StaleFiles |->
              IF p \in DOMAIN withIndex THEN withIndex[p] ELSE StaleFiles[p]]
      ELSE withIndex

(* ------------------------------ state --------------------------------- *)

VARIABLES
  mode,      \* the entry point called: "ref", "ref_velocity", or a writer
  args,      \* its keyword arguments (overwrite, intron)
  fs,        \* the filesystem
  fs0,       \* the filesystem when the (latest) call began
  pc,        \* the statement the call is at; "returned" or "raised" at its end
  locals,    \* ref's local path variables (sorted_fasta_path, ...)
  results,   \* ref's results dict
  manifest,  \* {} until the call returns, then {the value returned}
  calls      \* the calls made so far, in order

vars == <<mode, args, fs, fs0, pc, locals, results, manifest, calls>>

Call(fn, a, flags, r) == [fn |-> fn, args |-> a, flags |-> flags, exc |-> r.exc]

\* faulty variant: the exception is caught and what was built so far is returned
Proceed_Swallow(r, call, nextpc, newLocals, newResults) ==
  /\ fs' = r.fs
  /\ calls' = Append(calls, call)
  /\ IF r.exc # "none"
     THEN /\ pc' = "return"
          /\ UNCHANGED <<locals, results>>
     ELSE /\ pc' = nextpc
          /\ locals' = newLocals
          /\ results' = newResults
  /\ UNCHANGED <<mode, args, fs0, manifest>>

\* a call's effect on the run: the exception unwinds ref, or ref goes on
Proceed(r, call, nextpc, newLocals, newResults) ==
  /\ fs' = r.fs
  /\ calls' = Append(calls, call)
  /\ IF r.exc # "none"
     THEN /\ pc' = "raised"
          /\ UNCHANGED <<locals, results>>
     ELSE /\ pc' = nextpc
          /\ locals' = newLocals
          /\ results' = newResults
  /\ UNCHANGED <<mode, args, fs0, manifest>>

Init ==
  /\ mode \in {"ref", "ref_velocity"}
  /\ args \in [overwrite : BOOLEAN]
  /\ \E gtf \in SeqsUpTo(PipelineRecords, MaxEntries), index_exists \in BOOLEAN, stale \in BOOLEAN :
       fs = InitialFs(gtf, index_exists, stale)
  /\ fs0 = fs
  /\ pc = "create_t2g"
  /\ locals = EmptyMap
  /\ results = EmptyMap
  /\ manifest = {}
  /\ calls = <<>>

(* ------------------------------- ref ---------------------------------- *)

\* faulty variant: the transcript-to-gene map is written only when the index is built
ref_create_t2g_Gated ==
  /\ mode = "ref" /\ pc = "create_t2g"
  /\ IF ShouldBuild(fs, index_path, args.overwrite)
     THEN \E io \in BOOLEAN :
            LET r == create_t2g_from_gtf(fs, gtf_path, t2g_path, FALSE, io)
            IN  Proceed(r, Call("create_t2g_from_gtf", <<gtf_path, t2g_path>>, {}, r),
                        "check_index", locals, Update(results, r.ret))
     ELSE /\ pc' = "return"
          /\ UNCHANGED <<mode, args, fs, fs0, locals, results, manifest, calls>>


ref_create_t2g ==
  /\ mode = "ref" /\ pc = "create_t2g"
  /\ \E io \in BOOLEAN :
       LET r == create_t2g_from_gtf(fs, gtf_path, t2g_path, FALSE, io)
       IN  Proceed(r, Call("create_t2g_from_gtf", <<gtf_path, t2g_path>>, {}, r),
                   "check_index", locals, Update(results, r.ret))

ref_check_index ==
  /\ mode = "ref" /\ pc = "check_index"
  /\ pc' = IF ShouldBuild(fs, index_path, args.overwrite) THEN "sort_fasta" ELSE "return"
  /\ UNCHANGED <<mode, args, fs, fs0, locals, results, manifest, calls>>

ref_sort_fasta ==
  /\ mode = "ref" /\ pc = "sort_fasta"
  /\ \E ok \in BOOLEAN, out \in Perms(fs[fasta_path]) :
       LET r == sort_fasta(fs, fasta_path, Join(temp_dir, SORTED_FASTA_FILENAME),
                           [ok |-> ok, out |-> out])
       IN  Proceed(r, Call("sort_fasta", <<fasta_path, Join(temp_dir, SORTED_FASTA_FILENAME)>>, {}, r),
                   "sort_gtf", Bind(locals, "sorted_fasta_path", r.ret), results)

ref_sort_gtf ==
  /\ mode = "ref" /\ pc = "sort_gtf"
  /\ \E ok \in BOOLEAN, out \in Perms(fs[gtf_path]) :
       LET r == sort_gtf(fs, gtf_path, Join(temp_dir, SORTED_GTF_FILENAME),
                         [ok |-> ok, out |-> out])
       IN  Proceed(r, Call("sort_gtf", <<gtf_path, Join(temp_dir, SORTED_GTF_FILENAME)>>, {}, r),
                   "generate_cdna_fasta", Bind(locals, "sorted_gtf_path", r.ret), results)

\* faulty variant: ref records the cDNA file in its results, as ref_velocity does
ref_generate_cdna_fasta_Recorded ==
  /\ mode = "ref" /\ pc = "generate_cdna_fasta"
  /\ \E ok \in BOOLEAN, out \in CdnaContents :
       LET r == generate_cdna_fasta(fs, locals.sorted_fasta_path, locals.sorted_gtf_path,
                               cdna_path, [ok |-> ok, out |-> out])
       IN  Proceed(r, Call("generate_cdna_fasta",
                           <<locals.sorted_fasta_path, locals.sorted_gtf_path, cdna_path>>, {}, r),
                   "kallisto_index", Bind(locals, "cdna_fasta_path", r.ret),
                   Update(results, [cdna_fasta |-> r.ret]))


ref_generate_cdna_fasta ==
  /\ mode = "ref" /\ pc = "generate_cdna_fasta"
  /\ \E ok \in BOOLEAN, out \in CdnaContents :
       LET r == generate_cdna_fasta(fs, locals.sorted_fasta_path, locals.sorted_gtf_path,
                               cdna_path, [ok |-> ok, out |-> out])
       IN  Proceed(r, Call("generate_cdna_fasta",
                           <<locals.sorted_fasta_path, locals.sorted_gtf_path, cdna_path>>, {}, r),
                   "kallisto_index", Bind(locals, "cdna_fasta_path", r.ret), results)

ref_kallisto_index ==
  /\ mode = "ref" /\ pc = "kallisto_index"
  /\ \E ok \in BOOLEAN :
       LET r == kallisto_index(fs, locals.cdna_fasta_path, index_path, K_DEFAULT,
                               [ok |-> ok, out |-> <<>>])
       IN  Proceed(r, Call("kallisto_index", <<locals.cdna_fasta_path, index_path>>, {}, r),
                   "return", locals, Update(results, r.ret))

ref_return ==
  /\ mode = "ref" /\ pc = "return"
  /\ pc' = "returned"
  /\ manifest' = {results}
  /\ UNCHANGED <<mode, args, fs, fs0, locals, results, calls>>

ref ==
  \/ ref_create_t2g
  \/ ref_check_index
  \/ ref_sort_fasta
  \/ ref_sort_gtf
  \/ ref_generate_cdna_fasta
  \/ ref_kallisto_index
  \/ ref_return

(* --------------------------- ref_velocity ----------------------------- *)

ref_velocity_create_t2g ==
  /\ mode = "ref_velocity" /\ pc = "create_t2g"
  /\ \E io \in BOOLEAN :
       LET r == create_t2g_from_gtf(fs, gtf_path, t2g_path, TRUE, io)
       IN  Proceed(r, Call("create_t2g_from_gtf", <<gtf_path, t2g_path>>, {"intron"}, r),
                   "check_index", locals, Update(results, r.ret))

ref_velocity_check_index ==
  /\ mode = "ref_velocity" /\ pc = "check_index"
  /\ pc' = IF ShouldBuild(fs, index_path, args.overwrite) THEN "sort_fasta" ELSE "return"
  /\ UNCHANGED <<mode, args, fs, fs0, locals, results, manifest, calls>>

ref_velocity_sort_fasta ==
  /\ mode = "ref_velocity" /\ pc = "sort_fasta"
  /\ \E ok \in BOOLEAN, out \in Perms(fs[fasta_path]) :
       LET r == sort_fasta(fs, fasta_path, Join(temp_dir, SORTED_FASTA_FILENAME),
                           [ok |-> ok, out |-> out])
       IN  Proceed(r, Call("sort_fasta", <<fasta_path, Join(temp_dir, SORTED_FASTA_FILENAME)>>, {}, r),
                   "sort_gtf", Bind(locals, "sorted_fasta_path", r.ret), results)

ref_velocity_sort_gtf ==
  /\ mode = "ref_velocity" /\ pc = "sort_gtf"
  /\ \E ok \in BOOLEAN, out \in Perms(fs[gtf_path]) :
       LET r == sort_gtf(fs, gtf_path, Join(temp_dir, SORTED_GTF_FILENAME),
                         [ok |-> ok, out |-> out])
       IN  Proceed(r, Call("sort_gtf", <<gtf_path, Join(temp_dir, SORTED_GTF_FILENAME)>>, {}, r),
                   "generate_cdna_fasta", Bind(locals, "sorted_gtf_path", r.ret), results)

ref_velocity_generate_cdna_fasta ==
  /\ mode = "ref_velocity" /\ pc = "generate_cdna_fasta"
  /\ \E ok \in BOOLEAN, out \in CdnaContents :
       LET r == generate_cdna_fasta(fs, locals.sorted_fasta_path, locals.sorted_gtf_path,
                               cdna_path, [ok |-> ok, out |-> out])
       IN  Proceed(r, Call("generate_cdna_fasta",
                           <<locals.sorted_fasta_path, locals.sorted_gtf_path, cdna_path>>, {}, r),
                   "create_cdna_t2c", Bind(locals, "cdna_fasta_path", r.ret),
                   Update(results, [cdna_fasta |-> r.ret]))

ref_velocity_create_cdna_t2c ==
  /\ mode = "ref_velocity" /\ pc = "create_cdna_t2c"
  /\ \E io \in BOOLEAN :
       LET r == create_t2c(fs, locals.cdna_fasta_path, cdna_t2c_path, io)
       IN  Proceed(r, Call("create_t2c", <<locals.cdna_fasta_path, cdna_t2c_path>>, {}, r),
                   "generate_intron_fasta", locals,
                   IF r.exc # "none" THEN results ELSE Update(results, [cdna_t2c |-> r.ret["t2c"]]))

ref_velocity_generate_intron_fasta ==
  /\ mode = "ref_velocity" /\ pc = "generate_intron_fasta"
  /\ \E ok \in BOOLEAN, out \in IntronContents :
       LET r == generate_intron_fasta(fs, locals.sorted_fasta_path, locals.sorted_gtf_path,
                               intron_path, [ok |-> ok, out |-> out])
       IN  Proceed(r, Call("generate_intron_fasta",
                           <<locals.sorted_fasta_path, locals.sorted_gtf_path, intron_path>>, {}, r),
                   "create_intron_t2c", Bind(locals, "intron_fasta_path", r.ret),
                   Update(results, [intron_fasta |-> r.ret]))

ref_velocity_create_intron_t2c ==
  /\ mode = "ref_velocity" /\ pc = "create_intron_t2c"
  /\ \E io \in BOOLEAN :
       LET r == create_t2c(fs, locals.intron_fasta_path, intron_t2c_path, io)
       IN  Proceed(r, Call("create_t2c", <<locals.intron_fasta_path, intron_t2c_path>>, {}, r),
                   "concatenate_files", locals,
                   IF r.exc # "none" THEN results ELSE Update(results, [intron_t2c |-> r.ret["t2c"]]))

ref_velocity_concatenate_files ==
  /\ mode = "ref_velocity" /\ pc = "concatenate_files"
  /\ \E ok \in BOOLEAN :
       LET r == concatenate_files(fs, locals.cdna_fasta_path, locals.intron_fasta_path,
                                  Join(temp_dir, COMBINED_FILENAME), temp_dir,
                                  [ok |-> ok, out |-> <<>>])
       IN  Proceed(r, Call("concatenate_files",
                           <<locals.cdna_fasta_path, locals.intron_fasta_path,
                             Join(temp_dir, COMBINED_FILENAME), temp_dir>>, {}, r),
                   "kallisto_index", Bind(locals, "combined_path", r.ret), results)

\* faulty variant: the index is built from the cDNA file, as in ref
ref_velocity_kallisto_index_Cdna ==
  /\ mode = "ref_velocity" /\ pc = "kallisto_index"
  /\ \E ok \in BOOLEAN :
       LET r == kallisto_index(fs, locals.cdna_fasta_path, index_path, K_DEFAULT,
                               [ok |-> ok, out |-> <<>>])
       IN  Proceed(r, Call("kallisto_index", <<locals.cdna_fasta_path, index_path>>, {}, r),
                   "return", locals, Update(results, r.ret))


ref_velocity_kallisto_index ==
  /\ mode = "ref_velocity" /\ pc = "kallisto_index"
  /\ \E ok \in BOOLEAN :
       LET r == kallisto_index(fs, locals.combined_path, index_path, K_DEFAULT,
                               [ok |-> ok, out |-> <<>>])
       IN  Proceed(r, Call("kallisto_index", <<locals.combined_path, index_path>>, {}, r),
                   "return", locals, Update(results, r.ret))

ref_velocity_return ==
  /\ mode = "ref_velocity" /\ pc = "return"
  /\ pc' = "returned"
  /\ manifest' = {results}
  /\ UNCHANGED <<mode, args, fs, fs0, locals, results, calls>>

ref_velocity ==
  \/ ref_velocity_create_t2g
  \/ ref_velocity_check_index
  \/ ref_velocity_sort_fasta
  \/ ref_velocity_sort_gtf
  \/ ref_velocity_generate_cdna_fasta
  \/ ref_velocity_create_cdna_t2c
  \/ ref_velocity_generate_intron_fasta
  \/ ref_velocity_create_intron_t2c
  \/ ref_velocity_concatenate_files
  \/ ref_velocity_kallisto_index
  \/ ref_velocity_return

Next == ref \/ ref_velocity

Spec == Init /\ [][Next]_vars

(* ------------------ create_t2g_from_gtf called alone ------------------ *)

InitT2G ==
  /\ mode = "create_t2g_from_gtf"
  /\ args \in [intron : BOOLEAN]
  /\ \E gtf \in SeqsUpTo(Records, MaxEntries), stale \in BOOLEAN :
       fs = IF stale THEN [p \in {gtf_path, t2g_path} |-> IF p = gtf_path THEN gtf ELSE StaleText]
            ELSE [p \in {gtf_path} |-> gtf]
  /\ fs0 = fs
  /\ pc = "call"
  /\ locals = EmptyMap
  /\ results = EmptyMap
  /\ manifest = {}
  /\ calls = <<>>

call_create_t2g_from_gtf ==
  /\ mode = "create_t2g_from_gtf" /\ pc = "call"
  /\ \E io \in BOOLEAN :
       LET r == create_t2g_from_gtf(fs, gtf_path, t2g_path, args.intron, io)
       IN  /\ fs' = r.fs
           /\ calls' = Append(calls, Call("create_t2g_from_gtf", <<gtf_path, t2g_path>>,
                                          IF args.intron THEN {"intron"} ELSE {}, r))
           /\ pc' = IF r.exc # "none" THEN "raised" ELSE "returned"
           /\ manifest' = IF r.exc # "none" THEN {} ELSE {r.ret}
  /\ UNCHANGED <<mode, args, fs0, locals, results>>

NextT2G == call_create_t2g_from_gtf

SpecT2G == InitT2G /\ [][NextT2G]_vars

(* ---------------- create_t2c called alone, then again ----------------- *)

SourceEntries ==
  {<<id, body>> : id \in {T1, T2, T1 \o <<"-", "I">>}, body \in {BODY, <<"G">>}}

InitT2C ==
  /\ mode = "create_t2c"
  /\ args = EmptyMap
  /\ \E fasta \in SeqsUpTo(SourceEntries, MaxSeqs), stale \in BOOLEAN :
       fs = IF stale THEN [p \in {cdna_path, cdna_t2c_path} |-> IF p = cdna_path THEN fasta ELSE StaleText]
            ELSE [p \in {cdna_path} |-> fasta]
  /\ fs0 = fs
  /\ pc = "call"
  /\ locals = EmptyMap
  /\ results = EmptyMap
  /\ manifest = {}
  /\ calls = <<>>

call_create_t2c ==
  /\ mode = "create_t2c" /\ pc \in {"call", "again"}
  /\ \E io \in BOOLEAN :
       LET r == create_t2c(fs, cdna_path, cdna_t2c_path, io)
       IN  /\ fs' = r.fs
           /\ calls' = Append(calls, Call("create_t2c", <<cdna_path, cdna_t2c_path>>, {}, r))
           /\ pc' = IF r.exc # "none" THEN "raised"
                    ELSE IF pc = "call" THEN "again" ELSE "returned"
           /\ manifest' = IF r.exc # "none" THEN {} ELSE {r.ret}
  /\ fs0' = fs
  /\ UNCHANGED <<mode, args, locals, results>>

NextT2C == call_create_t2c

SpecT2C == InitT2C /\ [][NextT2C]_vars

(* ======================= reading the files back ======================= *)

\* s cut at each sep: the pieces a sep ends, and what follows the last sep
RECURSIVE SplitAcc(_, _, _, _)
SplitAcc(s, sep, cur, acc) ==
  IF s = <<>> THEN [done |-> acc, rest |-> cur]
  ELSE IF Head(s) = sep THEN SplitAcc(Tail(s), sep, <<>>, Append(acc, cur))
  ELSE SplitAcc(Tail(s), sep, Append(cur, Head(s)), acc)

\* the newline-terminated lines of a text
Lines(text) == SplitAcc(text, NL, <<>>, <<>>).done

\* what follows the text's last newline
Unterminated(text) == SplitAcc(text, NL, <<>>, <<>>).rest

\* the tab-separated columns of a line
Fields(line) ==
  LET r == SplitAcc(line, TAB, <<>>, <<>>) IN Append(r.done, r.rest)

IsPrefix(a, b) == Len(a) <= Len(b) /\ SubSeq(b, 1, Len(a)) = a

IsTranscript(e) == e.feature = "transcript"

LacksId(e) ==
  "transcript_id" \notin DOMAIN e.group \/ "gene_id" \notin DOMAIN e.group

\* the exception the latest call raised
LastExc == IF calls = <<>> THEN "none" ELSE calls[Len(calls)].exc

\* 1 line per transcript, 2 with intron
RowsPer == IF args.intron THEN 2 ELSE 1

T2GReturned == mode = "create_t2g_from_gtf" /\ pc = "returned"

(* ============================== claims ================================ *)

\* C5: when create_t2g_from_gtf returns, the file holds one line per
\* transcript record, in source order, other records skipped; with intron
\* the count is double and each transcript's line is directly followed by one
\* line with '-I' appended to the transcript and the same gene and gene_name.
C5_OneLinePerTranscript ==
  T2GReturned =>
    LET ts == SelectSeq(fs[gtf_path], IsTranscript)
        text == fs[t2g_path]
        lines == Lines(text)
    IN  /\ Unterminated(text) = <<>>
        /\ Len(lines) = RowsPer * Len(ts)
        /\ \A i \in 1..Len(ts) :
             LET main == Fields(lines[RowsPer * (i - 1) + 1])
             IN  /\ Len(main) = 3
                 /\ IsPrefix(Get(ts[i].group, "transcript_id", None), main[1])
                 /\ IsPrefix(Get(ts[i].group, "gene_id", None), main[2])
                 /\ args.intron =>
                      Fields(lines[2 * i]) = <<main[1] \o <<"-", "I">>, main[2], main[3]>>

C5_Witness ==
  /\ T2GReturned /\ args.intron
  /\ Len(fs[gtf_path]) = 2
  /\ ~IsTranscript(fs[gtf_path][1]) /\ IsTranscript(fs[gtf_path][2])
  /\ Len(Lines(fs[t2g_path])) = 2

\* the identifier the version rule asks for
SuffixedId(g, idKey, versionKey) ==
  IF versionKey \in DOMAIN g /\ g[versionKey] # <<>>
  THEN g[idKey] \o <<".">> \o g[versionKey]
  ELSE g[idKey]

\* C6: transcript and gene each get '.' + version when their own version
\* attribute is present and non-empty ("0" included) and stay bare when it is
\* absent or empty; gene_name is the empty string when absent; three columns.
C6_VersionSuffix ==
  T2GReturned =>
    LET ts == SelectSeq(fs[gtf_path], IsTranscript)
        lines == Lines(fs[t2g_path])
    IN  /\ Len(lines) >= RowsPer * Len(ts)
        /\ \A i \in 1..Len(ts) :
             LET g == ts[i].group
             IN  Fields(lines[RowsPer * (i - 1) + 1]) =
                   << SuffixedId(g, "transcript_id", "transcript_version"),
                      SuffixedId(g, "gene_id", "gene_version"),
                      IF "gene_name" \in DOMAIN g THEN g["gene_name"] ELSE <<>> >>

C6_Witness ==
  /\ T2GReturned
  /\ Len(fs[gtf_path]) = 2
  /\ \A i \in 1..2 : IsTranscript(fs[gtf_path][i])
  /\ LET g == fs[gtf_path][1].group
         h == fs[gtf_path][2].group
     IN  /\ Get(g, "transcript_version", None) = <<"0">>
         /\ Get(g, "gene_version", None) = <<>>
         /\ "gene_name" \notin DOMAIN g
         /\ "transcript_version" \notin DOMAIN h
         /\ Get(h, "gene_version", None) = <<"3">>
  /\ Lines(fs[t2g_path]) =
       << <<"T", "1", ".", "0", TAB, "G", "1", TAB>>,
          Get(fs[gtf_path][2].group, "transcript_id", None)
            \o <<TAB, "G", "1", ".", "3", TAB>>
            \o Get(fs[gtf_path][2].group, "gene_name", <<>>) >>

\* the index of the first transcript record lacking an id, 0 when there is none
FirstBad(entries) ==
  LET bad == {i \in 1..Len(entries) : IsTranscript(entries[i]) /\ LacksId(entries[i])}
  IN  IF bad = {} THEN 0 ELSE CHOOSE i \in bad : \A j \in bad : i <= j

\* C7: once the output is open, a transcript record lacking transcript_id or
\* gene_id makes create_t2g_from_gtf raise KeyError to its caller; a record of
\* another feature never does; the lines of the records before the offending
\* one are in the file when the error is raised.
C7_MissingKey ==
  (mode = "create_t2g_from_gtf" /\ pc \in {"returned", "raised"}) =>
    LET entries == fs[gtf_path]
        b == FirstBad(entries)
    IN  /\ (b # 0 /\ LastExc # "OSError") =>
             (pc = "raised" /\ LastExc = "KeyError" /\ manifest = {})
        /\ LastExc = "KeyError" => b # 0
        /\ LastExc = "KeyError" =>
             LET before == SelectSeq(SubSeq(entries, 1, b - 1), IsTranscript)
                 lines == Lines(fs[t2g_path])
             IN  /\ Unterminated(fs[t2g_path]) = <<>>
                 /\ Len(lines) = RowsPer * Len(before)
                 /\ \A i \in 1..Len(before) :
                      IsPrefix(before[i].group["transcript_id"],
                               lines[RowsPer * (i - 1) + 1])

C7_Witness ==
  /\ mode = "create_t2g_from_gtf" /\ pc = "raised" /\ LastExc = "KeyError"
  /\ FirstBad(fs[gtf_path]) = 2
  /\ IsTranscript(fs[gtf_path][1])
  /\ Len(Lines(fs[t2g_path])) = RowsPer

\* C8: after a run of create_t2c the output holds exactly one line per
\* sequence entry, the entry's sequence_id, in source order, duplicates kept,
\* and {'t2c': path} is returned; a second run with the same source and
\* destination leaves the filesystem as the first run left it.
C8_OneLinePerSequence ==
  (mode = "create_t2c" /\ pc \in {"again", "returned"}) =>
    LET src == fs[cdna_path]
        text == fs[cdna_t2c_path]
    IN  /\ Unterminated(text) = <<>>
        /\ Lines(text) = [i \in 1..Len(src) |-> src[i][1]]
        /\ manifest = {[t2c |-> cdna_t2c_path]}
        /\ pc = "returned" => fs = fs0

C8_Witness ==
  /\ mode = "create_t2c" /\ pc = "returned"
  /\ Len(fs[cdna_path]) = 2
  /\ fs[cdna_path][1][1] = fs[cdna_path][2][1]
  /\ Len(Lines(fs[cdna_t2c_path])) = 2
  /\ Len(calls) = 2

(* ----------------------- claims on the pipelines ---------------------- *)

Pipeline == mode \in {"ref", "ref_velocity"}

\* how many times fn has been called in this run
CallCount(fn) == Cardinality({i \in 1..Len(calls) : calls[i].fn = fn})

\* the calls behind the gate, with the times a full build makes each
Downstream ==
  [fn \in {"sort_fasta", "sort_gtf", "generate_cdna_fasta", "kallisto_index",
           "create_t2c", "generate_intron_fasta", "concatenate_files"} |->
     IF fn \in {"sort_fasta", "sort_gtf", "generate_cdna_fasta", "kallisto_index"} THEN 1
     ELSE IF mode # "ref_velocity" THEN 0
     ELSE IF fn = "create_t2c" THEN 2 ELSE 1]

\* the index exists when the run checks it (nothing before the check writes
\* index_path) and overwrite is false
GateClosed == Exists(fs0, index_path) /\ ~args.overwrite

\* C1: with the index present and overwrite false no downstream collaborator
\* is called at any point of the run; a downstream call implies the gate was
\* open; a run that returns with the gate open has called each collaborator
\* of its pipeline, the indexing step exactly once.
C1_GateDecidesCollaborators ==
  Pipeline =>
    /\ pc = "check_index" => (Exists(fs, index_path) <=> Exists(fs0, index_path))
    /\ GateClosed => \A fn \in DOMAIN Downstream : CallCount(fn) = 0
    /\ \A fn \in DOMAIN Downstream : CallCount(fn) <= Downstream[fn]
    /\ (pc = "returned" /\ ~GateClosed) =>
         \A fn \in DOMAIN Downstream : CallCount(fn) = Downstream[fn]

C1_Witness ==
  /\ mode = "ref_velocity" /\ pc = "returned"
  /\ Exists(fs0, index_path) /\ args.overwrite
  /\ CallCount("kallisto_index") = 1
  /\ CallCount("create_t2c") = 2

AllKeys == {"t2g", "index", "cdna_fasta", "intron_fasta", "cdna_t2c", "intron_t2c"}

\* C2: the manifest returned has the keys {t2g} on a skip, {t2g, index} for
\* ref that rebuilds, all six for ref_velocity that rebuilds; ref never holds
\* cdna_fasta, intron_fasta, cdna_t2c or intron_t2c.
C2_ManifestKeys ==
  Pipeline =>
    /\ pc = "returned" =>
         \E m \in manifest :
           /\ manifest = {m}
           /\ DOMAIN m = IF GateClosed THEN {"t2g"}
                         ELSE IF mode = "ref" THEN {"t2g", "index"}
                         ELSE AllKeys
    /\ pc # "returned" => manifest = {}
    /\ mode = "ref" => DOMAIN results \subseteq {"t2g", "index"}

C2_Witness ==
  /\ mode = "ref_velocity" /\ pc = "returned" /\ ~Exists(fs0, index_path)
  /\ \E m \in manifest : DOMAIN m = AllKeys /\ m["index"] = index_path

\* the order of the calls of a full run
CallOrder ==
  IF mode = "ref"
  THEN <<"create_t2g_from_gtf", "sort_fasta", "sort_gtf", "generate_cdna_fasta",
         "kallisto_index">>
  ELSE <<"create_t2g_from_gtf", "sort_fasta", "sort_gtf", "generate_cdna_fasta",
         "create_t2c", "generate_intron_fasta", "create_t2c", "concatenate_files",
         "kallisto_index">>

\* the calls so far are the first calls of a full run, in order
InCallOrder ==
  /\ Len(calls) <= Len(CallOrder)
  /\ \A i \in 1..Len(calls) : calls[i].fn = CallOrder[i]

\* the file a call writes
OutputOf(call) ==
  IF call.fn = "concatenate_files" THEN call.args[3] ELSE call.args[Len(call.args)]

\* the t2g file holds the lines of a completed create_t2g_from_gtf
T2GFileWritten ==
  /\ Exists(fs, t2g_path)
  /\ Unterminated(fs[t2g_path]) = <<>>
  /\ Len(Lines(fs[t2g_path])) =
       (IF mode = "ref" THEN 1 ELSE 2) * Len(SelectSeq(fs[gtf_path], IsTranscript))

\* C3: a failing step ends the run: the error reaches the caller, the failing
\* call is the last call made and is made once, no manifest is returned, and
\* the files the earlier steps wrote are still there.
C3_FailureAborts ==
  Pipeline =>
    /\ InCallOrder
    /\ \A i \in 1..Len(calls) :
         calls[i].exc # "none" => (pc = "raised" /\ i = Len(calls) /\ manifest = {})
    /\ pc = "raised" =>
         /\ LastExc # "none"
         /\ manifest = {}
         /\ \A i \in 1..(Len(calls) - 1) : Exists(fs, OutputOf(calls[i]))
         /\ Len(calls) > 1 => T2GFileWritten

C3_Witness ==
  /\ mode = "ref_velocity" /\ pc = "raised"
  /\ Len(calls) = 9
  /\ ~Exists(fs0, cdna_t2c_path) /\ Exists(fs, cdna_t2c_path)
  /\ ~Exists(fs, index_path)

\* C4: ref_velocity calls, each at most once and in this order: t2g with
\* intron=True, sort sequence, sort annotation, cDNA, cDNA t2c, intron,
\* intron t2c, concatenate, index.  Each t2c is built from the file its own
\* extraction returned, both extractions read the sorted pair in scratch, and
\* the index is built from the file concatenation returned.
C4_VelocityOrder ==
  mode = "ref_velocity" =>
    /\ InCallOrder
    /\ \A i \in 1..Len(calls) :
         /\ i = 1 => calls[i].flags = {"intron"}
         /\ i \in {4, 6} =>
              /\ calls[i].args[1] = calls[2].args[2]
              /\ calls[i].args[2] = calls[3].args[2]
              /\ calls[i].args[1] = Join(temp_dir, SORTED_FASTA_FILENAME)
              /\ calls[i].args[2] = Join(temp_dir, SORTED_GTF_FILENAME)
         /\ i = 5 => calls[i].args = <<locals.cdna_fasta_path, cdna_t2c_path>>
         /\ i = 7 => calls[i].args = <<locals.intron_fasta_path, intron_t2c_path>>
         /\ i = 8 => /\ calls[i].args[1] = locals.cdna_fasta_path
                     /\ calls[i].args[2] = locals.intron_fasta_path
         /\ i = 9 => /\ calls[i].args[1] = locals.combined_path
                     /\ calls[i].args[1] = calls[8].args[3]
    /\ (Len(calls) >= 4 /\ calls[4].exc = "none") => locals.cdna_fasta_path = calls[4].args[3]
    /\ (Len(calls) >= 6 /\ calls[6].exc = "none") => locals.intron_fasta_path = calls[6].args[3]
    /\ (pc = "returned" /\ ~GateClosed) =>
         /\ Len(calls) = 9
         /\ Lines(fs[cdna_t2c_path]) = [i \in 1..Len(fs[cdna_path]) |-> fs[cdna_path][i][1]]
         /\ Lines(fs[intron_t2c_path]) = [i \in 1..Len(fs[intron_path]) |-> fs[intron_path][i][1]]
         /\ fs[index_path].input = fs[cdna_path] \o fs[intron_path]

C4_Witness ==
  /\ mode = "ref_velocity" /\ pc = "returned"
  /\ Len(calls) = 9
  /\ Len(fs[cdna_path]) = 2 /\ Len(fs[intron_path]) = 1
  /\ Len(fs[index_path].input) = 3

\* the order in which a run sets the keys of results
KeyOrder ==
  IF mode = "ref" THEN <<"t2g", "index">>
  ELSE <<"t2g", "cdna_fasta", "cdna_t2c", "intron_fasta", "intron_t2c", "index">>

\* the keys set so far are the first keys of KeyOrder
KeysInOrder(d) ==
  \E n \in 0..Len(KeyOrder) : DOMAIN d = {KeyOrder[i] : i \in 1..n}

\* C9: every step of a run keeps the keys results already has, with their
\* values, adds keys only in the order t2g, cdna_fasta, cdna_t2c,
\* intron_fasta, intron_t2c, index, and the manifest returned is results.
C9_ResultsGrow ==
  [][Pipeline =>
       /\ \A k \in DOMAIN results : k \in DOMAIN results' /\ results'[k] = results[k]
       /\ Cardinality(DOMAIN results') <= Cardinality(DOMAIN results) + 1
       /\ KeysInOrder(results')
       /\ pc' = "returned" => manifest' = {results}]_vars

C9_Witness ==
  /\ mode = "ref_velocity" /\ pc = "returned"
  /\ DOMAIN results = AllKeys
  /\ manifest = {results}

\* the filesystem but for the file p
Without(fsys, p) == [q \in DOMAIN fsys \ {p} |-> fsys[q]]

\* C10: create_t2g_from_gtf is the first call of every run, made before the
\* index is checked; on a run that skips, it is the only call, the t2g file
\* is created or overwritten, and no other file (the index, the cDNA and
\* intron files, the t2c files, the scratch directory) is created or changed.
C10_T2GOutsideGate ==
  Pipeline =>
    /\ pc # "create_t2g" => (calls # <<>> /\ calls[1].fn = "create_t2g_from_gtf")
    /\ pc = "create_t2g" => calls = <<>>
    /\ GateClosed =>
         /\ Len(calls) <= 1
         /\ Without(fs, t2g_path) = Without(fs0, t2g_path)
         /\ pc = "returned" => (Len(calls) = 1 /\ T2GFileWritten)

C10_Witness ==
  /\ mode = "ref" /\ pc = "returned" /\ GateClosed
  /\ Exists(fs0, t2g_path) /\ Exists(fs0, cdna_path) /\ Exists(fs0, sorted_fasta_out)
  /\ fs[t2g_path] # fs0[t2g_path]
  /\ fs[t2g_path] # <<>>

====
